---- MODULE Spec2Model ----
(***************************************************************************)
(* A model of gfx::GameWindow (src/src/gfx/game_window.cc) and             *)
(* gfx::Material (src/src/gfx/material.cc).                                *)
(*                                                                         *)
(* The windowing backend (GLFW) and the graphics API (OpenGL) are modelled *)
(* by the part of their state the two classes touch: the window, the       *)
(* current context, the live shader and program objects, the viewport, the *)
(* active program and its uniforms, the texture units.  Every backend call *)
(* the constructor makes is appended to `log`, every backend call one      *)
(* UseMaterial makes to `mlog`.                                            *)
(***************************************************************************)
EXTENDS Integers, Sequences, FiniteSets, TLC

\* ------------------------------------------------------------------ bounds

\* Object names the graphics API may hand out are 1..MaxName (0 = failure).
MaxName == 3
\* Requested window widths and heights are 1..MaxDim.
MaxDim == 2
\* Texture handles of a material are 0..MaxTexture.
MaxTexture == 2

\* -------------------------------------------------------- program constants

\* field_of_view{45.0f} of the five-argument constructor.
DefaultFieldOfView == 45
\* near = 0.1f and far = 100.0f of glm::perspective, in tenths.
NearTenths == 1
FarTenths == 1000
\* The ambient coefficient 0.03f of the three-argument Material constructor,
\* in hundredths.
DefaultAmbient == 3
\* GL_TEXTURE0 and GL_TEXTURE1, as unit indices.
DiffuseUnit == 0
SpecularUnit == 1

Names == 1..MaxName
Dims == 1..MaxDim
\* The backend reports a framebuffer of window width * x by window height * y
\* pixels, x and y the content scales of the window, each in ScaleValues.
ScaleValues == {1, 2}
FovValues == {DefaultFieldOfView, 90}
Black == "black"
Colors == {Black, "grey"}
Sources == {"empty", "bad", "good"}
Textures == 0..MaxTexture
Shininesses == {1, 32}
Ambients == {DefaultAmbient, 10}

VARIABLES
    self,      \* the GameWindow object: window, field_of_view, program,
               \* perspective_projection
    glfw,      \* the windowing backend
    gl,        \* the graphics API state of the context
    log,       \* backend calls made by the constructor, in order
    status,    \* "none": not constructed, "ok": constructor returned,
               \* "failed": constructor threw
    env,       \* what the environment gave the constructor (sources, results)
    lastCall,  \* the last member function called: its name, and the value
               \* IsRunning returned, the fov UpdateFieldOfView was given or
               \* the argument of a Material member
    drawn,     \* the program handle the last RenderModel passed to Draw
    material,  \* the Material object
    tex,       \* texture units and material uniforms of the graphics API
    mlog       \* backend calls made by the last UseMaterial, in order

vars == <<self, glfw, gl, log, status, env, lastCall, drawn, material, tex, mlog>>
wvars == <<self, glfw, gl, log, status, env, drawn>>
mvars == <<material, tex, mlog>>

\* ----------------------------------------------------------------- helpers

Bool(b) == IF b THEN 1 ELSE 0

RECURSIVE Gcd(_, _)
Gcd(a, b) == IF b = 0 THEN a ELSE Gcd(b, a % b)

\* glm::perspective(radians(fovy), aspect, near, far): the non-zero entries
\* of the matrix.  m11 = 1/tan(fovy/2) is kept by the angle it is the
\* cotangent of, m00 = m11/aspect by that angle and the ratio w/h in lowest
\* terms (the float quotient of line 174 cannot tell 2/2 from 1/1), m22 and
\* m32 as fractions <<numerator, denominator>>.
Perspective(fovy, w, h) ==
    LET g == Gcd(w, h) IN
    [ m11 |-> fovy,
      m00 |-> <<fovy, w \div g, h \div g>>,
      m22 |-> <<-(FarTenths + NearTenths), FarTenths - NearTenths>>,
      m23 |-> -1,
      m32 |-> <<-(2 * FarTenths * NearTenths), 10 * (FarTenths - NearTenths)>> ]

NoProjection == [ m11 |-> 0, m00 |-> <<0, 0, 0>>, m22 |-> <<0, 0>>, m23 |-> 0,
                  m32 |-> <<0, 0>> ]

\* A world is the object, the two backends and the call log together; the
\* member functions below map worlds to worlds.
Call(s, name, arg) == [s EXCEPT !.log = Append(@, [call |-> name, arg |-> arg])]

\* glfwTerminate destroys every window and context, and with the context its
\* shader and program objects.
glfwTerminate(s) ==
    [Call(s, "glfwTerminate", "-") EXCEPT
        !.glfw.initialized = FALSE,
        !.glfw.window = FALSE,
        !.glfw.current = FALSE,
        !.gl.shaders = {},
        !.gl.programs = {},
        !.gl.current_program = 0]

\* glfwGetFramebufferSize: the real size of the window's framebuffer.
FramebufferSize(s) ==
    [w |-> s.glfw.size.w * s.glfw.scale.x, h |-> s.glfw.size.h * s.glfw.scale.y]

\* ------------------------------------------------- GameWindow: the members

World(o, w, g, l) == [self |-> o, glfw |-> w, gl |-> g, log |-> l, thrown |-> FALSE]

Throw(s) == [s EXCEPT !.thrown = TRUE]

\* UpdatePerspectiveProjection(width, height)
UpdatePerspectiveProjection(s, width, height) ==
    [s EXCEPT !.self.perspective_projection =
                  Perspective(s.self.field_of_view, width, height)]

\* SetBufferClearColor(color)
SetBufferClearColor(s, color) ==
    [Call(s, "glClearColor", "-") EXCEPT !.gl.clear_color = color]

\* UpdateDimensions(width, height)
UpdateDimensions(s, width, height) ==
    LET s1 == [Call(s, "glfwSetWindowSize", "-") EXCEPT
                   !.glfw.size = [w |-> width, h |-> height]]
        s2 == Call(s1, "glfwGetFramebufferSize", "-")
        real == FramebufferSize(s2)
        s3 == [Call(s2, "glViewport", "-") EXCEPT !.gl.viewport = real]
    IN  UpdatePerspectiveProjection(s3, real.w, real.h)

\* UpdateFieldOfView storing the field of view without recomputing the
\* projection.
UpdateFieldOfView_Stale(s, fov) ==
    [s EXCEPT !.self.field_of_view = fov]

\* UpdateFieldOfView computing the projection from the window size instead of
\* the framebuffer size.
UpdateFieldOfView_WindowSize(s, fov) ==
    LET s1 == [s EXCEPT !.self.field_of_view = fov]
    IN  UpdatePerspectiveProjection(s1, s1.glfw.size.w, s1.glfw.size.h)

\* UpdateFieldOfView(fov)
UpdateFieldOfView(s, fov) ==
    LET s1 == [s EXCEPT !.self.field_of_view = fov]
        s2 == Call(s1, "glfwGetFramebufferSize", "-")
        real == FramebufferSize(s2)
    IN  UpdatePerspectiveProjection(s2, real.w, real.h)

\* InitializeGameWindow calling gladLoadGL after glEnable.
InitializeGameWindow_LoadLate(s, width, height, color, e) ==
    LET s1 == [Call(s, "glfwInit", "-") EXCEPT !.glfw.initialized = TRUE]
        s2 == Call(s1, "glfwWindowHint", "-")
        s3 == Call(s2, "glfwCreateWindow", "-")
    IN  IF ~e.window_ok
        THEN Throw(glfwTerminate(s3))
        ELSE LET s4 == [s3 EXCEPT !.self.window = TRUE,
                                  !.glfw.window = TRUE,
                                  !.glfw.size = [w |-> width, h |-> height],
                                  !.glfw.scale = [x |-> e.xscale, y |-> e.yscale]]
                 s5 == [Call(s4, "glfwMakeContextCurrent", "-") EXCEPT
                            !.glfw.current = TRUE]
                 s6 == [Call(s5, "glEnable", "-") EXCEPT !.gl.depth_test = TRUE]
                 s7 == [Call(s6, "gladLoadGL", "-") EXCEPT !.gl.loaded = TRUE]
                 s8 == SetBufferClearColor(s7, color)
             IN  UpdateDimensions(s8, width, height)

\* InitializeGameWindow(width, height, color); e.window_ok is whether
\* glfwCreateWindow returns a window, e.xscale and e.yscale the content
\* scales of the window it returns.
InitializeGameWindow(s, width, height, color, e) ==
    LET s1 == [Call(s, "glfwInit", "-") EXCEPT !.glfw.initialized = TRUE]
        s2 == Call(s1, "glfwWindowHint", "-")
        s3 == Call(s2, "glfwCreateWindow", "-")
    IN  IF ~e.window_ok
        THEN Throw(glfwTerminate(s3))
        ELSE LET s4 == [s3 EXCEPT !.self.window = TRUE,
                                  !.glfw.window = TRUE,
                                  !.glfw.size = [w |-> width, h |-> height],
                                  !.glfw.scale = [x |-> e.xscale, y |-> e.yscale]]
                 s5 == [Call(s4, "glfwMakeContextCurrent", "-") EXCEPT
                            !.glfw.current = TRUE]
                 s6 == [Call(s5, "gladLoadGL", "-") EXCEPT !.gl.loaded = TRUE]
                 s7 == [Call(s6, "glEnable", "-") EXCEPT !.gl.depth_test = TRUE]
                 s8 == SetBufferClearColor(s7, color)
             IN  UpdateDimensions(s8, width, height)

\* CompileShader with the test of the compile status inverted.
CompileShader_InvertedStatus(s, src, shader_type, name, junk) ==
    IF src = "empty"
    THEN [st |-> s, ret |-> 0]
    ELSE LET s1 == [Call(s, "glCreateShader", shader_type) EXCEPT
                        !.gl.shaders = IF name = 0 THEN @ ELSE @ \cup {name}]
             s2 == Call(s1, "glShaderSource", shader_type)
             s3 == Call(s2, "glCompileShader", shader_type)
             s4 == Call(s3, "glGetShaderiv", shader_type)
             success == IF name = 0 THEN junk ELSE src = "good"
         IN  IF success
             THEN [st |-> Call(s4, "glGetShaderInfoLog", shader_type), ret |-> 0]
             ELSE [st |-> s4, ret |-> name]

\* CompileShader without the test for an empty file.
CompileShader_NoEmptyCheck(s, src, shader_type, name, junk) ==
    LET s1 == [Call(s, "glCreateShader", shader_type) EXCEPT
                   !.gl.shaders = IF name = 0 THEN @ ELSE @ \cup {name}]
        s2 == Call(s1, "glShaderSource", shader_type)
        s3 == Call(s2, "glCompileShader", shader_type)
        s4 == Call(s3, "glGetShaderiv", shader_type)
        success == IF name = 0 THEN junk ELSE src = "good"
    IN  IF ~success
        THEN [st |-> Call(s4, "glGetShaderInfoLog", shader_type), ret |-> 0]
        ELSE [st |-> s4, ret |-> name]

\* CompileShader(path, shader_type): src is what the file at path holds
\* ("empty": no bytes; "bad": text the compiler rejects; "good"), name the
\* object name glCreateShader returns (0 when it fails), junk the value of
\* the local `success` when glGetShaderiv, given the name 0, leaves it
\* unwritten.  The result is the world and the returned handle.
CompileShader(s, src, shader_type, name, junk) ==
    IF src = "empty"
    THEN [st |-> s, ret |-> 0]
    ELSE LET s1 == [Call(s, "glCreateShader", shader_type) EXCEPT
                        !.gl.shaders = IF name = 0 THEN @ ELSE @ \cup {name}]
             s2 == Call(s1, "glShaderSource", shader_type)
             s3 == Call(s2, "glCompileShader", shader_type)
             s4 == Call(s3, "glGetShaderiv", shader_type)
             success == IF name = 0 THEN junk ELSE src = "good"
         IN  IF ~success
             THEN [st |-> Call(s4, "glGetShaderInfoLog", shader_type), ret |-> 0]
             ELSE [st |-> s4, ret |-> name]

\* LinkProgram(vertex_path, fragment_path): e.pname is the name
\* glCreateProgram returns (0 when it fails), e.link_ok whether the two
\* shaders link, e.pjunk the value of the local `success` when
\* glGetProgramiv, given the name 0, leaves it unwritten (e.vjunk, e.fjunk:
\* the same for the two shaders).
LinkProgram(s, e) ==
    LET v == CompileShader(s, e.vsrc, "GL_VERTEX_SHADER", e.vname, e.vjunk)
        f == CompileShader(v.st, e.fsrc, "GL_FRAGMENT_SHADER", e.fname, e.fjunk)
    IN  IF v.ret = 0 \/ f.ret = 0
        THEN [st |-> f.st, ret |-> 0]
        ELSE LET linked_program == e.pname
                 s1 == [Call(f.st, "glCreateProgram", "-") EXCEPT
                            !.gl.programs = IF linked_program = 0 THEN @
                                            ELSE @ \cup {linked_program}]
                 s2 == Call(Call(s1, "glAttachShader", "GL_VERTEX_SHADER"),
                            "glAttachShader", "GL_FRAGMENT_SHADER")
                 s3 == Call(s2, "glLinkProgram", "-")
                 s4 == [Call(Call(s3, "glDeleteShader", "GL_VERTEX_SHADER"),
                             "glDeleteShader", "GL_FRAGMENT_SHADER") EXCEPT
                            !.gl.shaders = @ \ {v.ret, f.ret}]
                 s5 == Call(s4, "glGetProgramiv", "-")
                 success == IF linked_program = 0 THEN e.pjunk ELSE e.link_ok
             IN  IF ~success
                 THEN [st |-> Call(s5, "glGetProgramInfoLog", "-"), ret |-> 0]
                 ELSE IF linked_program = 0
                      THEN [st |-> glfwTerminate(s5), ret |-> 0]
                      ELSE [st |-> s5, ret |-> linked_program]

\* The state before a constructor runs: no window, no context, no objects.
NoGlfw == [initialized |-> FALSE, window |-> FALSE, current |-> FALSE,
           size |-> [w |-> 0, h |-> 0], scale |-> [x |-> 1, y |-> 1], should_close |-> FALSE,
           front |-> 0]
NoGl == [loaded |-> FALSE, depth_test |-> FALSE, clear_color |-> Black,
         viewport |-> [w |-> 0, h |-> 0], shaders |-> {}, programs |-> {},
         current_program |-> 0, cleared |-> FALSE, u_program |-> 0,
         u_view |-> "unset", u_projection |-> NoProjection]

\* The constructor without the test of the program handle.
GameWindow_NoCheck(width, height, e, fov, color) ==
    LET o  == [window |-> FALSE, field_of_view |-> fov, program |-> 0,
               perspective_projection |-> NoProjection]
        s0 == World(o, NoGlfw, NoGl, <<>>)
        s1 == InitializeGameWindow(s0, width, height, color, e)
    IN  IF s1.thrown THEN s1
        ELSE LET r == LinkProgram(s1, e)
             IN  [r.st EXCEPT !.self.program = r.ret]

\* GameWindow(width, height, vertex_path, fragment_path, camera, fov, color):
\* the member initializers, then the body.  A world with thrown = TRUE is the
\* constructor leaving by GameWindowCannotBeInitializedException.
GameWindow(width, height, e, fov, color) ==
    LET o  == [window |-> FALSE, field_of_view |-> fov, program |-> 0,
               perspective_projection |-> NoProjection]
        s0 == World(o, NoGlfw, NoGl, <<>>)
        s1 == InitializeGameWindow(s0, width, height, color, e)
    IN  IF s1.thrown THEN s1
        ELSE LET r  == LinkProgram(s1, e)
                 s2 == [r.st EXCEPT !.self.program = r.ret]
             IN  IF s2.self.program = 0 THEN Throw(s2) ELSE s2

\* IsRunning(): !glfwWindowShouldClose(window)
IsRunning(s) == ~s.glfw.should_close

\* PollForEvents(): glfwPollEvents; close says whether a close request is
\* among the events processed.  No callback is registered by this class.
PollForEvents(s, close) ==
    [s EXCEPT !.glfw.should_close = @ \/ close]

\* PrepareRender(); "camera" stands for camera->GetViewTransform().
PrepareRender(s) ==
    [s EXCEPT !.gl.current_program = s.self.program,
              !.gl.cleared = TRUE,
              !.gl.u_program = s.self.program,
              !.gl.u_view = "camera",
              !.gl.u_projection = s.self.perspective_projection]

\* RenderModel passing the active program of the context.
RenderModel_ActiveProgram(s) == s.gl.current_program

\* RenderModel(model_instance): the handle model_instance->Draw receives.
RenderModel(s) == s.self.program

\* FinishRender(): glfwSwapBuffers exchanges the front and the back buffer.
FinishRender(s) ==
    [s EXCEPT !.glfw.front = 1 - @]

\* ---------------------------------------------------- GameWindow: actions

Here == World(self, glfw, gl, <<>>)

Last(op, a) == [op |-> op, a |-> a]

\* What the environment can give one constructor call.  A value the
\* constructor never reads is fixed, so that it does not tell states apart.
Envs ==
    { e \in [ window_ok : BOOLEAN, xscale : ScaleValues, yscale : ScaleValues, vsrc : Sources, fsrc : Sources,
              vname : 0..MaxName, fname : 0..MaxName, pname : 0..MaxName,
              link_ok : BOOLEAN, vjunk : BOOLEAN, fjunk : BOOLEAN, pjunk : BOOLEAN ] :
        /\ (e.vname # 0 => e.vname # e.fname /\ e.vname # e.pname)
        /\ (e.fname # 0 => e.fname # e.pname)
        /\ (e.vname # 0 => ~e.vjunk)
        /\ (e.fname # 0 => ~e.fjunk)
        /\ (e.pname # 0 => ~e.pjunk)
        /\ (e.pname = 0 => ~e.link_ok)
        /\ (~e.window_ok => e.xscale = 1 /\ e.yscale = 1) }

\* What is kept of e once the constructor is over: the question each name
\* answered (was an object handed out?), not the name; and the handle the
\* constructor stored in `program`.
Given(e, s) ==
    [ window_ok |-> e.window_ok, vsrc |-> e.vsrc, fsrc |-> e.fsrc,
      v_made |-> e.vname # 0, f_made |-> e.fname # 0, p_made |-> e.pname # 0,
      link_ok |-> e.link_ok, linked |-> s.self.program ]

Constructed(s, e, op) ==
    /\ self' = s.self
    /\ glfw' = s.glfw
    /\ gl' = s.gl
    /\ log' = s.log
    /\ status' = IF s.thrown THEN "failed" ELSE "ok"
    /\ env' = Given(e, s)
    /\ lastCall' = Last(op, 0)
    /\ UNCHANGED <<drawn, mvars>>

\* new GameWindow(width, height, vertex_path, fragment_path, camera, fov, color)
NewGameWindowColor ==
    /\ status = "none"
    /\ \E width \in Dims, height \in Dims, e \in Envs, fov \in FovValues,
          color \in Colors :
          Constructed(GameWindow(width, height, e, fov, color), e,
                      "GameWindow7")

\* new GameWindow(width, height, vertex_path, fragment_path, camera)
NewGameWindow ==
    /\ status = "none"
    /\ \E width \in Dims, height \in Dims, e \in Envs :
          Constructed(GameWindow(width, height, e, DefaultFieldOfView, Black), e,
                      "GameWindow5")

Stepped(s, op, a) ==
    /\ self' = s.self
    /\ glfw' = s.glfw
    /\ gl' = s.gl
    /\ lastCall' = Last(op, a)
    /\ UNCHANGED <<log, status, env, mvars>>

DoIsRunning ==
    /\ status = "ok"
    /\ Stepped(Here, "IsRunning", Bool(IsRunning(Here)))
    /\ UNCHANGED drawn

DoPollForEvents ==
    /\ status = "ok"
    /\ \E close \in BOOLEAN : Stepped(PollForEvents(Here, close), "PollForEvents", 0)
    /\ UNCHANGED drawn

DoUpdateDimensions ==
    /\ status = "ok"
    /\ \E width \in Dims, height \in Dims :
          Stepped(UpdateDimensions(Here, width, height), "UpdateDimensions", 0)
    /\ UNCHANGED drawn

DoUpdateFieldOfView ==
    /\ status = "ok"
    /\ \E fov \in FovValues :
          Stepped(UpdateFieldOfView(Here, fov), "UpdateFieldOfView", fov)
    /\ UNCHANGED drawn

DoPrepareRender ==
    /\ status = "ok"
    /\ Stepped(PrepareRender(Here), "PrepareRender", 0)
    /\ UNCHANGED drawn

DoRenderModel ==
    /\ status = "ok"
    /\ Stepped(Here, "RenderModel", 0)
    /\ drawn' = RenderModel(Here)

DoFinishRender ==
    /\ status = "ok"
    /\ Stepped(FinishRender(Here), "FinishRender", 0)
    /\ UNCHANGED drawn

\* --------------------------------------------------------------- Material

\* A material world is the Material object, the texture and uniform state of
\* the graphics API, and the calls made so far.
MCall(M, name, a, b) ==
    [M EXCEPT !.log = Append(@, [call |-> name, a |-> a, b |-> b])]

\* glUniform1f / glUniform1i(glGetUniformLocation(program, name), value)
Uniform(M, program, name, value) ==
    [MCall(M, "glUniform", name, value) EXCEPT
        !.tex.u_program = program,
        !.tex.uniform[name] = value]

\* glActiveTexture(GL_TEXTURE0 + unit)
glActiveTexture(M, unit) ==
    [MCall(M, "glActiveTexture", "-", unit) EXCEPT !.tex.active = unit]

\* glBindTexture(GL_TEXTURE_2D, handle) binds on the active unit; the log
\* entry keeps that unit.
glBindTexture(M, handle) ==
    [MCall(M, "glBindTexture", ToString(M.tex.active), handle) EXCEPT
        !.tex.bound[M.tex.active] = handle]

\* Material(diffuse_handle, specular_handle, shininess, ambient)
Material(diffuse_handle, specular_handle, shininess, ambient) ==
    [ shininess |-> shininess, ambient_coefficient |-> ambient,
      diffuse_handle |-> diffuse_handle, specular_handle |-> specular_handle ]

\* Material(diffuse_handle, specular_handle, shininess)
MaterialDefaultAmbient(diffuse_handle, specular_handle, shininess) ==
    Material(diffuse_handle, specular_handle, shininess, DefaultAmbient)

\* UseMaterial binding the specular texture on the unit of the diffuse one.
UseMaterial_OneUnit(M, program) ==
    LET m  == M.mat
        M1 == Uniform(M, program, "ambient_coefficient", m.ambient_coefficient)
        M2 == Uniform(M1, program, "shininess", m.shininess)
        M3 == Uniform(M2, program, "diffuse_enabled", Bool(m.diffuse_handle # 0))
        M4 == IF m.diffuse_handle # 0
              THEN Uniform(glBindTexture(glActiveTexture(M3, DiffuseUnit),
                                         m.diffuse_handle),
                           program, "diffuse_texture", DiffuseUnit)
              ELSE M3
        M5 == Uniform(M4, program, "specular_enabled", Bool(m.specular_handle # 0))
    IN  IF m.specular_handle # 0
        THEN Uniform(glBindTexture(glActiveTexture(M5, DiffuseUnit),
                                   m.specular_handle),
                     program, "specular_texture", SpecularUnit)
        ELSE M5

\* UseMaterial(program)
UseMaterial(M, program) ==
    LET m  == M.mat
        M1 == Uniform(M, program, "ambient_coefficient", m.ambient_coefficient)
        M2 == Uniform(M1, program, "shininess", m.shininess)
        M3 == Uniform(M2, program, "diffuse_enabled", Bool(m.diffuse_handle # 0))
        M4 == IF m.diffuse_handle # 0
              THEN Uniform(glBindTexture(glActiveTexture(M3, DiffuseUnit),
                                         m.diffuse_handle),
                           program, "diffuse_texture", DiffuseUnit)
              ELSE M3
        M5 == Uniform(M4, program, "specular_enabled", Bool(m.specular_handle # 0))
    IN  IF m.specular_handle # 0
        THEN Uniform(glBindTexture(glActiveTexture(M5, SpecularUnit),
                                   m.specular_handle),
                     program, "specular_texture", SpecularUnit)
        ELSE M5

\* RemoveTexture with the second test made an else-branch of the first.
RemoveTexture_ElseIf(M, id) ==
    IF M.mat.diffuse_handle = id
    THEN [M EXCEPT !.mat.diffuse_handle = 0]
    ELSE IF M.mat.specular_handle = id
         THEN [M EXCEPT !.mat.specular_handle = 0] ELSE M

\* RemoveTexture(id)
RemoveTexture(M, id) ==
    LET M1 == IF M.mat.diffuse_handle = id
              THEN [M EXCEPT !.mat.diffuse_handle = 0] ELSE M
    IN  IF M1.mat.specular_handle = id
        THEN [M1 EXCEPT !.mat.specular_handle = 0] ELSE M1

UniformNames == {"ambient_coefficient", "shininess", "diffuse_enabled",
                 "diffuse_texture", "specular_enabled", "specular_texture"}

\* The texture state of a fresh context: unit 0 active, nothing bound, every
\* uniform 0.
NoTex == [ active |-> 0, bound |-> [u \in {DiffuseUnit, SpecularUnit} |-> 0],
           u_program |-> 0, uniform |-> [n \in UniformNames |-> 0] ]

MHere == [mat |-> material, tex |-> tex, log |-> <<>>]

MStepped(M, op, a) ==
    /\ material' = M.mat
    /\ tex' = M.tex
    /\ mlog' = M.log
    /\ lastCall' = Last(op, a)
    /\ UNCHANGED wvars

DoUseMaterial ==
    /\ status = "none"
    /\ \E program \in Names :
          MStepped(UseMaterial(MHere, program), "UseMaterial", program)

DoRemoveTexture ==
    /\ status = "none"
    /\ \E id \in Textures :
          MStepped(RemoveTexture(MHere, id), "RemoveTexture", id)

\* ----------------------------------------------------------- specifications

NoObject == [window |-> FALSE, field_of_view |-> 0, program |-> 0,
             perspective_projection |-> NoProjection]
NoEnv == [ window_ok |-> FALSE, vsrc |-> "empty", fsrc |-> "empty",
           v_made |-> FALSE, f_made |-> FALSE, p_made |-> FALSE,
           link_ok |-> FALSE, linked |-> 0 ]

NoWindow ==
    /\ self = NoObject
    /\ glfw = NoGlfw
    /\ gl = NoGl
    /\ log = <<>>
    /\ status = "none"
    /\ env = NoEnv
    /\ drawn = 0

\* The window before its constructor runs, beside one material.
Init ==
    /\ NoWindow
    /\ lastCall = Last("none", 0)
    /\ material = MaterialDefaultAmbient(0, 0, 1)
    /\ tex = NoTex
    /\ mlog = <<>>

Next ==
    \/ NewGameWindowColor
    \/ NewGameWindow
    \/ DoIsRunning
    \/ DoPollForEvents
    \/ DoUpdateDimensions
    \/ DoUpdateFieldOfView
    \/ DoPrepareRender
    \/ DoRenderModel
    \/ DoFinishRender

Spec == Init /\ [][Next]_vars

\* A constructed material, with no window.
MaterialInit ==
    /\ NoWindow
    /\ lastCall \in { Last("Material4", 0), Last("Material3", 0) }
    /\ material \in
         IF lastCall.op = "Material4"
         THEN { Material(d, s, sh, a) :
                  d \in Textures, s \in Textures, sh \in Shininesses, a \in Ambients }
         ELSE { MaterialDefaultAmbient(d, s, sh) :
                  d \in Textures, s \in Textures, sh \in Shininesses }
    /\ tex = NoTex
    /\ mlog = <<>>

MaterialNext ==
    \/ DoUseMaterial
    \/ DoRemoveTexture

MaterialSpec == MaterialInit /\ [][MaterialNext]_vars

\* ------------------------------------------------------------------ claims

\* The calls of the constructor's log that go to the graphics API (not to
\* the windowing backend, not to the function-pointer loader).
GLCalls == { "glEnable", "glClearColor", "glViewport", "glCreateShader",
             "glShaderSource", "glCompileShader", "glGetShaderiv",
             "glGetShaderInfoLog", "glCreateProgram", "glAttachShader",
             "glLinkProgram", "glDeleteShader", "glGetProgramiv",
             "glGetProgramInfoLog" }

Where(name) == { i \in 1..Len(log) : log[i].call = name }
Made(name, arg) == \E i \in 1..Len(log) : log[i] = [call |-> name, arg |-> arg]

\* A source compiles when the compiler, run on it in the window's context,
\* accepts it; the pair links when the linker accepts the two shaders.
Compiles(src, made) == env.window_ok /\ src = "good" /\ made
Links == env.p_made /\ env.link_ok

\* C1: whenever the vertex and the fragment source are non-empty, both
\* compile and the pair links, the constructor (either one) returns without
\* throwing and the program handle it stored is not 0.
C1_ValidSourcesConstruct ==
    ( /\ status # "none"
      /\ Compiles(env.vsrc, env.v_made)
      /\ Compiles(env.fsrc, env.f_made)
      /\ Links )
    => (status = "ok" /\ self.program # 0)

C1_Witness ==
    /\ status = "ok"
    /\ lastCall.op \in {"GameWindow5", "GameWindow7"}
    /\ env.vsrc = "good" /\ env.fsrc = "good" /\ Links
    /\ self.program # 0

\* C2: the constructor throws whenever a source is empty, whenever a source
\* does not compile and whenever the pair does not link, whatever the other
\* source is; and glCompileShader is never called for an empty source.
C2_BadSourcesFail ==
    status # "none" =>
        /\ (env.vsrc # "good" \/ env.fsrc # "good" \/ ~Links) => status = "failed"
        /\ env.vsrc = "empty" => ~Made("glCompileShader", "GL_VERTEX_SHADER")
        /\ env.fsrc = "empty" => ~Made("glCompileShader", "GL_FRAGMENT_SHADER")

C2_Witness ==
    /\ status = "failed"
    /\ env.window_ok
    /\ env.vsrc = "empty" /\ env.fsrc = "good"
    /\ Made("glCompileShader", "GL_FRAGMENT_SHADER")
    /\ ~Made("glCompileShader", "GL_VERTEX_SHADER")

\* C3: in every state in which the constructor has returned, the program
\* handle of the surface is not 0 and names a live program object of a live
\* window; a constructor that ends with the handle 0 has thrown.
C3_NoPartialSurface ==
    /\ status = "ok" =>
          /\ self.program # 0
          /\ self.program \in gl.programs
          /\ self.window /\ glfw.window /\ glfw.current /\ gl.loaded
    /\ (status # "none" /\ self.program = 0) => status = "failed"

C3_Witness ==
    /\ status = "ok"
    /\ self.program # 0
    /\ lastCall.op = "FinishRender"

\* C4: when the constructor has thrown, nothing it created is left: no
\* window, no shader object, no program object.
C4_NothingLeftOnFailure ==
    status = "failed" =>
        /\ ~glfw.window
        /\ gl.shaders = {}
        /\ gl.programs = {}

\* C5: once constructed, `program` stays the handle linked at construction;
\* every RenderModel passes that handle to Draw, and once a PrepareRender has
\* run it is the handle PrepareRender activated and uploaded view and
\* projection to.
C5_SameProgram ==
    status = "ok" =>
        /\ self.program = env.linked
        /\ gl.programs = {env.linked}
        /\ lastCall.op = "RenderModel" => drawn = self.program
        /\ drawn \in {0, env.linked}
        /\ gl.cleared =>
              /\ gl.current_program = env.linked
              /\ gl.u_program = env.linked
              /\ drawn # 0 => drawn = gl.current_program

C5_Witness ==
    /\ status = "ok"
    /\ gl.cleared
    /\ lastCall.op = "RenderModel"
    /\ drawn = gl.current_program
    /\ drawn # 0

\* C6: in every state after construction the stored projection is the one
\* computed from the current field of view and the real framebuffer size of
\* the most recent UpdateDimensions / UpdateFieldOfView (which is what the
\* viewport was set to), with near 0.1 and far 100.0; and the projection a
\* PrepareRender uploads is that one.
C6_ProjectionFresh ==
    status = "ok" =>
        LET real == FramebufferSize(Here) IN
        /\ self.perspective_projection =
              Perspective(self.field_of_view, real.w, real.h)
        /\ self.perspective_projection.m22 = <<-1001, 999>>
        /\ self.perspective_projection.m32 = <<-2000, 9990>>
        /\ gl.viewport = real
        /\ lastCall.op = "PrepareRender" =>
              gl.u_projection = Perspective(self.field_of_view, real.w, real.h)

\* The requested size and the real size differ in aspect, and the field of
\* view is not the one given to the constructor's projection.
C6_Witness ==
    /\ status = "ok"
    /\ lastCall.op = "PrepareRender"
    /\ glfw.scale.x # glfw.scale.y
    /\ glfw.size.w # glfw.size.h
    /\ self.field_of_view # DefaultFieldOfView
    /\ gl.u_projection # Perspective(self.field_of_view, glfw.size.w, glfw.size.h)
    /\ gl.u_projection = self.perspective_projection

\* C7: a step UpdateFieldOfView(fov2) leaves the window size and the viewport
\* as they were and makes the projection the one computed from fov2 and the
\* dimensions the viewport was last set to.
C7_FieldOfViewOnly ==
    [][ lastCall'.op = "UpdateFieldOfView" =>
          /\ glfw'.size = glfw.size
          /\ gl'.viewport = gl.viewport
          /\ self'.field_of_view = lastCall'.a
          /\ self'.perspective_projection =
                Perspective(lastCall'.a, gl.viewport.w, gl.viewport.h) ]_vars

C7_Witness ==
    /\ status = "ok"
    /\ lastCall.op = "UpdateFieldOfView"
    /\ self.field_of_view = lastCall.a
    /\ gl.cleared
    /\ gl.u_projection # self.perspective_projection
    /\ glfw.scale.x # glfw.scale.y
    /\ self.perspective_projection =
          Perspective(self.field_of_view, gl.viewport.w, gl.viewport.h)

\* C8: a step RemoveTexture(h) sets to 0 exactly the stored handles equal to
\* h and changes nothing else, and a second RemoveTexture(h) changes nothing.
C8_RemoveTexture ==
    [][ lastCall'.op = "RemoveTexture" =>
          LET h == lastCall'.a
              again == RemoveTexture([mat |-> material', tex |-> tex', log |-> mlog'], h)
          IN  /\ material'.diffuse_handle =
                    IF material.diffuse_handle = h THEN 0 ELSE material.diffuse_handle
              /\ material'.specular_handle =
                    IF material.specular_handle = h THEN 0 ELSE material.specular_handle
              /\ material'.shininess = material.shininess
              /\ material'.ambient_coefficient = material.ambient_coefficient
              /\ tex' = tex
              /\ again.mat = material' /\ again.tex = tex' ]_vars

\* Both handles were equal to h, h not 0, and both are cleared.
C8_Witness ==
    /\ lastCall.op = "RemoveTexture"
    /\ lastCall.a # 0
    /\ material.diffuse_handle = 0
    /\ material.specular_handle = 0
    /\ tex.bound[DiffuseUnit] = lastCall.a
    /\ tex.bound[SpecularUnit] = lastCall.a

Binds(l) == { <<l[i].a, l[i].b>> : i \in { j \in 1..Len(l) : l[j].call = "glBindTexture" } }

\* C9: a step UseMaterial uploads diffuse_enabled = (diffuse handle # 0) and
\* specular_enabled = (specular handle # 0), binds the diffuse handle on
\* unit 0 iff it is not 0 and the specular handle on unit 1 iff it is not 0,
\* binds nothing else, and leaves the material as it was.
C9_UseMaterial ==
    [][ lastCall'.op = "UseMaterial" =>
          LET d == material.diffuse_handle
              s == material.specular_handle
          IN  /\ material' = material
              /\ tex'.uniform["diffuse_enabled"] = Bool(d # 0)
              /\ tex'.uniform["specular_enabled"] = Bool(s # 0)
              /\ Binds(mlog') =
                    (IF d # 0 THEN {<<"0", d>>} ELSE {}) \cup
                    (IF s # 0 THEN {<<"1", s>>} ELSE {})
              /\ tex'.bound[DiffuseUnit] = (IF d # 0 THEN d ELSE tex.bound[DiffuseUnit])
              /\ tex'.bound[SpecularUnit] = (IF s # 0 THEN s ELSE tex.bound[SpecularUnit])
              /\ d # 0 => tex'.uniform["diffuse_texture"] = DiffuseUnit
              /\ s # 0 => tex'.uniform["specular_texture"] = SpecularUnit ]_vars

\* Diffuse 0 and specular not 0: one bind, on unit 1.
C9_Witness ==
    /\ lastCall.op = "UseMaterial"
    /\ material.diffuse_handle = 0
    /\ material.specular_handle # 0
    /\ tex.uniform["diffuse_enabled"] = 0
    /\ tex.uniform["specular_enabled"] = 1
    /\ Binds(mlog) = {<<"1", material.specular_handle>>}

\* C10: when the window is created the constructor calls gladLoadGL exactly
\* once, after glfwCreateWindow and glfwMakeContextCurrent and before every
\* call to the graphics API; when it is not created the constructor throws
\* after one glfwCreateWindow, with no context made current, no gladLoadGL
\* and no call to the graphics API.
C10_LoadOrder ==
    status # "none" =>
        /\ Cardinality(Where("glfwCreateWindow")) = 1
        /\ IF env.window_ok
           THEN /\ Cardinality(Where("gladLoadGL")) = 1
                /\ Cardinality(Where("glfwMakeContextCurrent")) = 1
                /\ \A i \in Where("gladLoadGL") :
                      /\ \A j \in Where("glfwMakeContextCurrent") : j < i
                      /\ \A j \in Where("glfwCreateWindow") : j < i
                      /\ \A j \in 1..Len(log) : log[j].call \in GLCalls => i < j
                /\ \E j \in 1..Len(log) : log[j].call \in GLCalls
           ELSE /\ status = "failed"
                /\ \A j \in 1..Len(log) :
                      log[j].call \notin
                          GLCalls \cup {"gladLoadGL", "glfwMakeContextCurrent"}
                /\ ~glfw.current /\ ~gl.loaded

\* The window is not created.
C10_WitnessNoWindow ==
    /\ status = "failed"
    /\ ~env.window_ok
    /\ Made("glfwCreateWindow", "-")
    /\ Made("glfwTerminate", "-")

\* The window is created and the shaders are linked.
C10_Witness ==
    /\ status = "ok"
    /\ Made("gladLoadGL", "-")
    /\ Made("glLinkProgram", "-")

====
